---- MODULE Spec2Model ----
(***************************************************************************)
(* Staged timer (src/src/main.rs): the Timer state, update_state, the      *)
(* pause toggle, the renderer's projection and the main loop with its      *)
(* ticker thread.                                                          *)
(*                                                                         *)
(* Two specifications share the state:                                     *)
(*   Spec       the program: main() from the constructed Timer to exit;    *)
(*   TimerSpec  update_state and the pause toggle applied in any order to  *)
(*              a constructed Timer (the functions as a unit).             *)
(*                                                                         *)
(* u32 values: a difference a - b of two u32 with b > a is kept as the     *)
(* negative integer a - b, which stands for the wrapped value              *)
(* 2^32 + (a - b); it is never 0 and exceeds every threshold of the model. *)
(***************************************************************************)
EXTENDS Integers, Sequences, FiniteSets, TLC

\* Bounds of the model.
MaxStages == 2
MaxPeriod == 3
MaxTicks == 6
MaxWarn == 1
MaxToggles == 2

VARIABLES
    timer,            \* Timer {stages, current_timer, paused}
    warn,             \* warning threshold (parse_cl_args)
    overflowChecks,   \* the build: TRUE = overflow checks on (debug profile)
    pc,               \* position of main(): setup, tick, input, teardown, exited; api in TimerSpec
    keep_running,     \* main's loop flag
    queue,            \* ticks sent and not yet received (the mpsc channel)
    rawMode,          \* terminal in raw mode
    altScreen,        \* terminal on the alternate screen
    frame,            \* the last frame drawn
    exitCode,         \* none, zero, nonzero, panic
    exitPath,         \* how main() was left
    emitted,          \* history: ticks sent by the ticker thread
    advanced,         \* history: calls of update_state
    pausedCalls,      \* history: calls of update_state made while paused and not complete
    applied,          \* history: per stage, unpaused calls made while it was the active one
    lastRet,          \* history: what the last call of update_state returned
    renderErr,        \* history: some update_display returned Err
    teardownErr,      \* history: a call of the teardown returned Err
    toggles,          \* history (TimerSpec): pause toggles since the last update_state
    pausedAtCall      \* history: paused as the last update_state (or construction) left it

vars == <<timer, warn, overflowChecks, pc, keep_running, queue, rawMode, altScreen,
          frame, exitCode, exitPath, emitted, advanced, pausedCalls, applied,
          lastRet, renderErr, teardownErr, toggles, pausedAtCall>>

loopVars == <<keep_running, queue, rawMode, altScreen, frame, exitPath, emitted, renderErr>>

----------------------------------------------------------------------------
\* Data

\* create_timer_list: one stage per (name, time), nothing elapsed. Names do not
\* take part in any computation and are left out.
create_timer_list(times) ==
    [i \in 1..Len(times) |-> [period_s |-> times[i], elapsed_s |-> 0]]

\* The Timer literal of main.
new_timer(times) ==
    [stages |-> create_timer_list(times), current_timer |-> 0, paused |-> FALSE]

\* What the command line can give: at least one --time (the argument is
\* required), each a u32, 0 included.
StageLists == UNION {[1..n -> 0..MaxPeriod] : n \in 1..MaxStages}

\* a - b on u32 (see the note on u32 values above).
sub_u32(a, b) == a - b

\* Whether a - b underflows: a panic when the build checks overflow.
underflows(a, b) == b > a

----------------------------------------------------------------------------
\* update_state

\* Mutant of tick_elapsed: a tick counted twice.
tick_elapsed_twice(e) == e + 2

\* t.elapsed_s += 1
tick_elapsed(e) == e + 1

\* Mutant of stage_done: the stage ends with a second still to go.
stage_done_early(s) == sub_u32(s.period_s, s.elapsed_s) <= 1

\* if t.period_s - t.elapsed_s == 0
stage_done(s) == sub_u32(s.period_s, s.elapsed_s) = 0

\* if *current_timer >= stages.len() { return false; }
is_complete(t) == t.current_timer >= Len(t.stages)

\* Mutant of update_state: the call that completes the last stage returns false.
update_state_false_at_once(t, chk) ==
    IF is_complete(t) THEN [timer |-> t, ret |-> "false", panic |-> FALSE]
    ELSE IF t.paused THEN [timer |-> t, ret |-> "true", panic |-> FALSE]
    ELSE LET i  == t.current_timer + 1
             s  == [t.stages[i] EXCEPT !.elapsed_s = tick_elapsed(@)]
             t1 == [t EXCEPT !.stages[i] = s]
             t2 == [t1 EXCEPT !.current_timer = @ + 1]
         IN  IF chk /\ underflows(s.period_s, s.elapsed_s)
             THEN [timer |-> t1, ret |-> "none", panic |-> TRUE]
             ELSE IF stage_done(s)
                  THEN [timer |-> t2,
                        ret |-> IF is_complete(t2) THEN "false" ELSE "true",
                        panic |-> FALSE]
                  ELSE [timer |-> t1, ret |-> "true", panic |-> FALSE]

\* Mutant of update_state: the pause is not looked at.
update_state_ignores_pause(t, chk) ==
    IF is_complete(t) THEN [timer |-> t, ret |-> "false", panic |-> FALSE]
    ELSE LET i  == t.current_timer + 1
             s  == [t.stages[i] EXCEPT !.elapsed_s = tick_elapsed(@)]
             t1 == [t EXCEPT !.stages[i] = s]
         IN  IF chk /\ underflows(s.period_s, s.elapsed_s)
             THEN [timer |-> t1, ret |-> "none", panic |-> TRUE]
             ELSE IF stage_done(s)
                  THEN [timer |-> [t1 EXCEPT !.current_timer = @ + 1],
                        ret |-> "true", panic |-> FALSE]
                  ELSE [timer |-> t1, ret |-> "true", panic |-> FALSE]

\* update_state(timer) under a build with (chk) or without overflow checks:
\* the Timer it leaves, what it returns, and whether it panicked instead of
\* returning (the subtraction underflowed under overflow checks; elapsed_s is
\* already incremented then).
update_state(t, chk) ==
    IF is_complete(t) THEN [timer |-> t, ret |-> "false", panic |-> FALSE]
    ELSE IF t.paused THEN [timer |-> t, ret |-> "true", panic |-> FALSE]
    ELSE LET i  == t.current_timer + 1
             s  == [t.stages[i] EXCEPT !.elapsed_s = tick_elapsed(@)]
             t1 == [t EXCEPT !.stages[i] = s]
         IN  IF chk /\ underflows(s.period_s, s.elapsed_s)
             THEN [timer |-> t1, ret |-> "none", panic |-> TRUE]
             ELSE IF stage_done(s)
                  THEN [timer |-> [t1 EXCEPT !.current_timer = @ + 1],
                        ret |-> "true", panic |-> FALSE]
                  ELSE [timer |-> t1, ret |-> "true", panic |-> FALSE]

\* Mutant of toggle_pause: the toggle only ever pauses.
toggle_pause_sets(t) == [t EXCEPT !.paused = TRUE]

\* timer.paused = !timer.paused
toggle_pause(t) == [t EXCEPT !.paused = ~@]

\* The history a call of update_state leaves.
CallHistory(r) ==
    /\ advanced' = advanced + 1
    /\ pausedCalls' = IF ~is_complete(timer) /\ timer.paused
                      THEN pausedCalls + 1 ELSE pausedCalls
    /\ applied' = IF ~is_complete(timer) /\ ~timer.paused
                  THEN [applied EXCEPT ![timer.current_timer + 1] = @ + 1]
                  ELSE applied
    /\ lastRet' = IF r.panic THEN lastRet ELSE r.ret
    /\ toggles' = 0
    /\ pausedAtCall' = r.timer.paused

----------------------------------------------------------------------------
\* update_display

\* 2^32 seconds are U32Hours hours and U32Rest seconds.
U32Hours == 1193046
U32Rest == 1696

\* format_seconds: hours, minutes and seconds of a u32, each printed with at
\* least two digits. The three numbers stand for the string; a negative
\* argument stands for the wrapped 2^32 + seconds.
format_seconds(seconds) ==
    LET base == IF seconds < 0 THEN U32Hours ELSE 0
        r    == IF seconds < 0 THEN U32Rest + seconds ELSE seconds
    IN  <<base + (r \div (60 * 60)), (r % (60 * 60)) \div 60, r % 60>>

\* timer.period_s - timer.elapsed_s
remaining(s) == sub_u32(s.period_s, s.elapsed_s)

\* timer.period_s - timer.elapsed_s <= warning_threshold (a wrapped
\* difference is above every threshold of the model)
within_warning(s, w) == remaining(s) >= 0 /\ remaining(s) <= w

\* Mutant of title: the times are shown whether paused or not.
title_times_only(t, s) ==
    [paused |-> FALSE, left |-> format_seconds(remaining(s)),
     total |-> format_seconds(s.period_s)]

\* The gauge's title.
title(t, s) ==
    IF t.paused
    THEN [paused |-> TRUE, left |-> <<>>, total |-> <<>>]
    ELSE [paused |-> FALSE, left |-> format_seconds(remaining(s)),
          total |-> format_seconds(s.period_s)]

\* The gauge's colour.
gauge_color(t, i, w) ==
    IF i - 1 = t.current_timer
    THEN IF w > 0 /\ within_warning(t.stages[i], w) THEN "MUSTARD_YELLOW" ELSE "White"
    ELSE "GREY"

\* timer_completion = 1 - remaining / period, as numerator and denominator.
timer_completion(s) == <<s.period_s - remaining(s), s.period_s>>

\* Whether timer_completion is a number of [0, 1]: it is NaN for a period of 0
\* with nothing elapsed and -inf for a period of 0 otherwise.
ratio_valid(s) == s.period_s > 0 /\ remaining(s) >= 0

\* The frame the closure of update_display draws: one gauge per stage.
draw(t, w) ==
    [i \in 1..Len(t.stages) |->
        [ratio |-> timer_completion(t.stages[i]),
         title |-> title(t, t.stages[i]),
         color |-> gauge_color(t, i, w)]]

\* Mutant of update_display: the frame is drawn without the paused flag.
update_display_unpaused(t, w, chk) ==
    {[kind |-> "Err", frame |-> <<>>],
     [kind |-> "Ok", frame |-> draw([t EXCEPT !.paused = FALSE], w)]}

\* What update_display can do: draw the frame (Ok), fail with an I/O error
\* (Err), or panic: under overflow checks when a subtraction underflows, and,
\* when the gauge library rejects a ratio outside [0, 1], for such a ratio
\* (the library is not part of the repository: both outcomes are kept).
update_display(t, w, chk) ==
    LET arith == chk /\ \E i \in 1..Len(t.stages) :
                           underflows(t.stages[i].period_s, t.stages[i].elapsed_s)
        bad   == \E i \in 1..Len(t.stages) : ~ratio_valid(t.stages[i])
    IN  {[kind |-> "Err", frame |-> <<>>]}
        \cup (IF arith \/ bad THEN {[kind |-> "Panic", frame |-> <<>>]} ELSE {})
        \cup (IF arith THEN {} ELSE {[kind |-> "Ok", frame |-> draw(t, w)]})

----------------------------------------------------------------------------
\* TimerSpec: the Timer's two operations in any order

TimerInit ==
    /\ \E times \in StageLists :
          /\ timer = new_timer(times)
          /\ applied = [i \in 1..Len(times) |-> 0]
    /\ warn = 0
    /\ overflowChecks \in BOOLEAN
    /\ pc = "api"
    /\ keep_running = TRUE
    /\ queue = <<>>
    /\ rawMode = FALSE
    /\ altScreen = FALSE
    /\ frame = <<>>
    /\ exitCode = "none"
    /\ exitPath = "none"
    /\ emitted = 0
    /\ advanced = 0
    /\ pausedCalls = 0
    /\ lastRet = "none"
    /\ renderErr = FALSE
    /\ teardownErr = FALSE
    /\ toggles = 0
    /\ pausedAtCall = FALSE

\* A call of update_state.
Advance ==
    /\ pc = "api"
    /\ advanced < MaxTicks
    /\ LET r == update_state(timer, overflowChecks)
       IN  /\ timer' = r.timer
           /\ CallHistory(r)
           /\ pc' = IF r.panic THEN "exited" ELSE pc
           /\ exitCode' = IF r.panic THEN "panic" ELSE exitCode
    /\ UNCHANGED <<warn, overflowChecks, teardownErr, loopVars>>

\* A pause toggle.
TogglePause ==
    /\ pc = "api"
    /\ toggles < MaxToggles
    /\ timer' = toggle_pause(timer)
    /\ toggles' = toggles + 1
    /\ UNCHANGED <<warn, overflowChecks, pc, exitCode, advanced, pausedCalls, applied,
                   lastRet, pausedAtCall, teardownErr, loopVars>>

TimerNext == Advance \/ TogglePause

TimerSpec == TimerInit /\ [][TimerNext]_vars

----------------------------------------------------------------------------
\* Spec: main()

\* The events read_event can return: key events and others.
KeyCodes == {"Esc", "c", " ", "x"}
Modifiers == {"NONE", "CONTROL", "SHIFT"}
InputEvents ==
    [kind : {"Key"}, code : KeyCodes, modifiers : Modifiers]
    \cup {[kind |-> "Resize", code |-> "", modifiers |-> "NONE"]}

\* Mutant of classify: the Quit arm is bound to keys without modifiers only.
classify_unmodified_quit(event) ==
    IF event.kind = "Key" /\ event.modifiers = "NONE" /\ event.code = "Esc"
    THEN "Quit"
    ELSE IF event.kind = "Key" /\ event.modifiers = "NONE" /\ event.code = " "
         THEN "TogglePause"
         ELSE "Ignored"

\* Mutant of classify: 'c' quits whatever the modifiers.
classify_any_c_quits(event) ==
    IF event.kind = "Key" /\ (event.code = "Esc" \/ event.code = "c")
    THEN "Quit"
    ELSE IF event.kind = "Key" /\ event.modifiers = "NONE" /\ event.code = " "
         THEN "TogglePause"
         ELSE "Ignored"

\* The match of main on the event read.
classify(event) ==
    IF event.kind = "Key"
       /\ (event.code = "Esc" \/ (event.code = "c" /\ event.modifiers = "CONTROL"))
    THEN "Quit"
    ELSE IF event.kind = "Key" /\ event.modifiers = "NONE" /\ event.code = " "
         THEN "TogglePause"
         ELSE "Ignored"

\* Mutant of recv_rest: the pending ticks are taken as one.
recv_rest_drains(q) == <<>>

\* tick_rx.try_recv() on a channel holding q: what is left in the channel.
recv_rest(q) == Tail(q)

\* tick_tx.send("tick") on a channel holding q: never blocks, never drops.
send(q, tick) == Append(q, tick)

\* The state after data setup: parse_cl_args and the Timer literal.
Init ==
    /\ \E times \in StageLists :
          /\ timer = new_timer(times)
          /\ applied = [i \in 1..Len(times) |-> 0]
    /\ warn \in {0, MaxWarn}
    /\ overflowChecks \in BOOLEAN
    /\ pc = "setup"
    /\ keep_running = TRUE
    /\ queue = <<>>
    /\ rawMode = FALSE
    /\ altScreen = FALSE
    /\ frame = <<>>
    /\ exitCode = "none"
    /\ exitPath = "none"
    /\ emitted = 0
    /\ advanced = 0
    /\ pausedCalls = 0
    /\ lastRet = "none"
    /\ renderErr = FALSE
    /\ teardownErr = FALSE
    /\ toggles = 0
    /\ pausedAtCall = FALSE

\* main returns Err (code nonzero) or panics, without reaching the teardown.
\* The process ends, and the channel with it.
Abort(code, path) ==
    /\ pc' = "exited"
    /\ exitCode' = code
    /\ exitPath' = path
    /\ queue' = <<>>

historyVars == <<advanced, pausedCalls, applied, lastRet, toggles, pausedAtCall, teardownErr>>

\* TUI setup: enable_raw_mode()?, execute!(EnterAlternateScreen)?,
\* Terminal::new()?, each of which may fail.
SetupFails ==
    /\ pc = "setup"
    /\ \E failed \in {"raw", "screen", "terminal"} :
          /\ rawMode' = (failed # "raw")
          /\ altScreen' = (failed = "terminal")
    /\ Abort("nonzero", "setup")
    /\ UNCHANGED <<timer, warn, overflowChecks, keep_running, frame, emitted,
                   renderErr, historyVars>>

\* TUI setup succeeds; the first update_display(...)?; the channel and the
\* ticker thread; keep_running = true.
Setup ==
    /\ pc = "setup"
    /\ rawMode' = TRUE
    /\ altScreen' = TRUE
    /\ \E o \in update_display(timer, warn, overflowChecks) :
          \/ /\ o.kind = "Ok"
             /\ frame' = o.frame
             /\ pc' = "tick"
             /\ UNCHANGED <<queue, exitCode, exitPath, renderErr>>
          \/ /\ o.kind = "Err"
             /\ renderErr' = TRUE
             /\ Abort("nonzero", "setup")
             /\ UNCHANGED frame
          \/ /\ o.kind = "Panic"
             /\ Abort("panic", "panic")
             /\ UNCHANGED <<frame, renderErr>>
    /\ keep_running' = TRUE
    /\ UNCHANGED <<timer, warn, overflowChecks, emitted, historyVars>>

\* The ticker thread: sleep a second, send a tick. It is spawned after the first
\* frame; what it sends once the loop is left is never received.
TickerEmit ==
    /\ pc \in {"tick", "input"}
    /\ emitted < MaxTicks
    /\ emitted' = emitted + 1
    /\ queue' = send(queue, emitted + 1)
    /\ UNCHANGED <<timer, warn, overflowChecks, pc, keep_running, rawMode, altScreen,
                   frame, exitCode, exitPath, renderErr, historyVars>>

\* tick_rx.try_recv() finds no tick: nothing is done.
NoTick ==
    /\ pc = "tick"
    /\ queue = <<>>
    /\ pc' = "input"
    /\ UNCHANGED <<timer, warn, overflowChecks, keep_running, queue, rawMode, altScreen,
                   frame, exitCode, exitPath, emitted, renderErr, historyVars>>

\* tick_rx.try_recv() finds a tick: keep_running = update_state(&mut timer),
\* then update_display, whose Err sets keep_running = false.
Tick ==
    /\ pc = "tick"
    /\ queue # <<>>
    /\ LET r == update_state(timer, overflowChecks)
       IN  /\ timer' = r.timer
           /\ CallHistory(r)
           /\ IF r.panic
              THEN /\ Abort("panic", "panic")
                   /\ UNCHANGED <<keep_running, frame, renderErr>>
              ELSE \E o \in update_display(r.timer, warn, overflowChecks) :
                      \/ /\ o.kind = "Ok"
                         /\ frame' = o.frame
                         /\ keep_running' = (r.ret = "true")
                         /\ pc' = "input"
                         /\ queue' = recv_rest(queue)
                         /\ UNCHANGED <<exitCode, exitPath, renderErr>>
                      \/ /\ o.kind = "Err"
                         /\ keep_running' = FALSE
                         /\ renderErr' = TRUE
                         /\ pc' = "input"
                         /\ queue' = recv_rest(queue)
                         /\ UNCHANGED <<frame, exitCode, exitPath>>
                      \/ /\ o.kind = "Panic"
                         /\ Abort("panic", "panic")
                         /\ UNCHANGED <<keep_running, frame, renderErr>>
    /\ UNCHANGED <<warn, overflowChecks, rawMode, altScreen, emitted, teardownErr>>

\* Mutant of LoopBack: the next event is polled before the channel is looked
\* at again.
LoopBack_polls_again ==
    /\ pc' = IF keep_running THEN "input" ELSE "teardown"
    /\ exitPath' = IF keep_running THEN exitPath ELSE "loop_end"
    /\ UNCHANGED <<exitCode, queue>>

\* The end of an iteration: while keep_running.
LoopBack ==
    /\ pc' = IF keep_running THEN "tick" ELSE "teardown"
    /\ exitPath' = IF keep_running THEN exitPath ELSE "loop_end"
    /\ UNCHANGED <<exitCode, queue>>

\* poll_event(...)? or read_event()? fails: main returns the error.
InputFails ==
    /\ pc = "input"
    /\ Abort("nonzero", "input")
    /\ UNCHANGED <<timer, warn, overflowChecks, keep_running, rawMode, altScreen,
                   frame, emitted, renderErr, historyVars>>

\* poll_event returns false: no event within the timeout.
NoInput ==
    /\ pc = "input"
    /\ LoopBack
    /\ UNCHANGED <<timer, warn, overflowChecks, keep_running, rawMode, altScreen,
                   frame, emitted, renderErr, historyVars>>

\* The arms of the match: the Quit arm breaks out of the loop, the
\* TogglePause arm flips paused and draws, the last arm does nothing.
Arm(arm) ==
    /\ \/ /\ arm = "Quit"
          /\ pc' = "teardown"
          /\ exitPath' = "quit"
          /\ UNCHANGED <<timer, queue, frame, exitCode, renderErr>>
       \/ /\ arm = "TogglePause"
          /\ timer' = toggle_pause(timer)
          /\ \E o \in update_display(timer', warn, overflowChecks) :
                \/ /\ o.kind = "Ok"
                   /\ frame' = o.frame
                   /\ LoopBack
                   /\ UNCHANGED renderErr
                \/ /\ o.kind = "Err"
                   /\ renderErr' = TRUE
                   /\ Abort("nonzero", "render")
                   /\ UNCHANGED frame
                \/ /\ o.kind = "Panic"
                   /\ Abort("panic", "panic")
                   /\ UNCHANGED <<frame, renderErr>>
       \/ /\ arm = "Ignored"
          /\ LoopBack
          /\ UNCHANGED <<timer, frame, renderErr>>
    /\ UNCHANGED <<warn, overflowChecks, keep_running, rawMode, altScreen, emitted,
                   historyVars>>

\* The event read is matched: the arm it selects is run.
OnEvent(event) == Arm(classify(event))

\* The arms some event selects.
Arms == {classify(event) : event \in InputEvents}

\* poll_event returns true: an event is read and matched.
Input ==
    /\ pc = "input"
    /\ \E arm \in Arms : Arm(arm)

\* Restore terminal state: disable_raw_mode()?, execute!(LeaveAlternateScreen)?,
\* show_cursor()?, Ok(()). The process ends either way.
Teardown ==
    /\ pc = "teardown"
    /\ \E failed \in {"none", "raw", "screen", "cursor"} :
          /\ rawMode' = (failed = "raw")
          /\ altScreen' = (failed \in {"raw", "screen"})
          /\ exitCode' = IF failed = "none" THEN "zero" ELSE "nonzero"
          /\ teardownErr' = (failed # "none")
    /\ pc' = "exited"
    /\ queue' = <<>>
    /\ UNCHANGED <<timer, warn, overflowChecks, keep_running, frame, exitPath,
                   emitted, renderErr, advanced, pausedCalls, applied, lastRet,
                   toggles, pausedAtCall>>

Next ==
    \/ SetupFails
    \/ Setup
    \/ TickerEmit
    \/ NoTick
    \/ Tick
    \/ InputFails
    \/ NoInput
    \/ Input
    \/ Teardown

Spec == Init /\ [][Next]_vars

\* The steps of the main thread: everything but the ticker's.
MainStep ==
    \/ SetupFails
    \/ Setup
    \/ NoTick
    \/ Tick
    \/ InputFails
    \/ NoInput
    \/ Input
    \/ Teardown

\* The runs that are to end by completion: main started with durations that
\* are all >= 1; the warning threshold plays no part in how they end.
FairInit ==
    /\ Init
    /\ warn = 0
    /\ \A i \in 1..Len(timer.stages) : timer.stages[i].period_s >= 1

\* Both threads keep running: the main thread, whose sleeps and polls are
\* bounded (50 ms each), takes its next step, and the ticker thread, which
\* sleeps a second between sends, sends its next tick.
FairSpec ==
    FairInit /\ [][Next]_vars /\ WF_vars(MainStep) /\ WF_vars(TickerEmit)

----------------------------------------------------------------------------
\* Properties

RECURSIVE SumElapsed(_, _), SumPeriod(_, _)
\* Seconds elapsed over the first n stages.
SumElapsed(st, n) == IF n = 0 THEN 0 ELSE SumElapsed(st, n - 1) + st[n].elapsed_s
\* Seconds to run over the first n stages.
SumPeriod(st, n) == IF n = 0 THEN 0 ELSE SumPeriod(st, n - 1) + st[n].period_s

TotalElapsed == SumElapsed(timer.stages, Len(timer.stages))
TotalPeriod == SumPeriod(timer.stages, Len(timer.stages))

Stages == 1..Len(timer.stages)
AllPeriodsValid == \A i \in Stages : timer.stages[i].period_s >= 1

\* A step that is a call of update_state, and one in which the call returned.
Called == advanced' # advanced
Returned == Called /\ pc' # "exited"

\* C1: a call of update_state returns false exactly when current_timer >=
\* len(stages) as it is called; after a call that returned false (pause
\* toggles in between or not) every call returns false and leaves stages,
\* current_timer and paused as they are.
C1_FalseIffComplete ==
    [][Called =>
          /\ (Returned /\ lastRet' = "false") <=> is_complete(timer)
          /\ lastRet = "false" => (Returned /\ lastRet' = "false" /\ timer' = timer)
      ]_vars

\* C1 witness: update_state has returned false twice and the pause has been
\* toggled after the first of them.
C1_Witness ==
    /\ lastRet = "false"
    /\ timer.paused
    /\ advanced - pausedCalls - TotalElapsed >= 2

\* C2 as stated (for stages of periods >= 1, no render having failed): once
\* the last stage is complete, the call that completed it has returned false.
C2_CompletingCallReturnsFalse ==
    (AllPeriodsValid /\ ~renderErr /\ is_complete(timer)) => lastRet = "false"

\* C2 amended: the call that completes the last stage returns true and the loop
\* goes on; false is returned by the next call only, the one made with the
\* Timer already complete, and the loop ends by completion on that call: with
\* no paused call, on call number (sum of the periods) + 1.
C2_FalseOnNextCall ==
    /\ lastRet = "false" => advanced = TotalPeriod + pausedCalls + 1
    /\ (is_complete(timer) /\ advanced = TotalPeriod + pausedCalls) =>
          /\ lastRet = "true"
          /\ (pc \in {"tick", "input"} /\ ~renderErr) => keep_running
    /\ (exitPath = "loop_end" /\ ~renderErr) => lastRet = "false"

\* C2 witness: stages of 3 and 2 seconds, never paused: the loop has ended on
\* the 6th call, the one that returned false.
C2_Witness ==
    /\ Len(timer.stages) = 2
    /\ timer.stages[1].period_s = 3
    /\ timer.stages[2].period_s = 2
    /\ pausedCalls = 0
    /\ advanced = 6
    /\ lastRet = "false"
    /\ exitPath = "loop_end"

\* C3: for a stage of period P >= 1, each unpaused call made while it is the
\* active stage adds one elapsed second; after fewer than P of them
\* current_timer is still on the stage, and the P-th leaves elapsed_s = P and
\* moves current_timer on by exactly one.
C3_StageTakesPeriodCalls ==
    /\ [](\A i \in Stages :
            LET s == timer.stages[i] IN
            s.period_s >= 1 =>
               /\ s.elapsed_s = applied[i]
               /\ applied[i] <= s.period_s
               /\ (applied[i] > 0 /\ applied[i] < s.period_s) => timer.current_timer = i - 1
               /\ applied[i] = s.period_s => timer.current_timer >= i)
    /\ [][\A i \in Stages :
            (timer.stages[i].period_s >= 1 /\ applied'[i] = applied[i] + 1) =>
               /\ timer.current_timer = i - 1
               /\ timer'.current_timer =
                     IF applied'[i] = timer.stages[i].period_s THEN i ELSE i - 1
         ]_vars

\* C3 witness: a second stage of period 3 has just been completed by its 3rd
\* unpaused call, with paused calls in between.
C3_Witness ==
    /\ Len(timer.stages) = 2
    /\ timer.stages[2].period_s = 3
    /\ applied[2] = 3
    /\ timer.current_timer = 2
    /\ pausedCalls > 0

\* C4: a call made while paused on a Timer that is not complete returns true
\* and leaves every elapsed_s and current_timer as they are, however many
\* such calls are made; a call made while not paused (so also the first one
\* after the pause is toggled off) adds exactly 1 to the elapsed_s of the
\* active stage and changes no other stage.
C4_PausedCallsChangeNothing ==
    [][(Called /\ ~is_complete(timer)) =>
          LET i == timer.current_timer + 1 IN
          IF timer.paused
          THEN Returned /\ lastRet' = "true" /\ timer' = timer
          ELSE /\ timer'.stages[i].elapsed_s = timer.stages[i].elapsed_s + 1
               /\ \A j \in Stages \ {i} : timer'.stages[j] = timer.stages[j]
      ]_vars

\* C4 witness: paused at once, 5 calls, pause toggled off, 1 call: one second
\* has elapsed.
C4_Witness ==
    /\ pausedCalls = 5
    /\ advanced = 6
    /\ ~timer.paused
    /\ ~pausedAtCall
    /\ TotalElapsed = 1

\* C5: a pause toggle flips paused and changes neither stages nor
\* current_timer; after an even number of toggles with no call of update_state
\* in between, paused is what it was.
C5_ToggleOnlyFlipsPaused ==
    /\ [](toggles % 2 = 0 => timer.paused = pausedAtCall)
    /\ [][toggles' = toggles + 1 =>
             timer' = [timer EXCEPT !.paused = ~timer.paused]]_vars

\* C5 witness: two toggles since a call that left the Timer paused, with time
\* elapsed before.
C5_Witness ==
    /\ toggles = 2
    /\ pausedAtCall
    /\ timer.paused
    /\ TotalElapsed >= 1

\* C6: with every period >= 1, in every state 0 <= elapsed_s <= period_s for
\* every stage and 0 <= current_timer <= len(stages); no subtraction
\* period_s - elapsed_s underflows (and so no call panics).
C6_ElapsedWithinPeriod ==
    AllPeriodsValid =>
       /\ \A i \in Stages :
             /\ 0 <= timer.stages[i].elapsed_s
             /\ timer.stages[i].elapsed_s <= timer.stages[i].period_s
             /\ ~underflows(timer.stages[i].period_s, timer.stages[i].elapsed_s)
       /\ 0 <= timer.current_timer
       /\ timer.current_timer <= Len(timer.stages)
       /\ pc # "exited"

\* C6 witness: every stage has run to its period and update_state has returned
\* false.
C6_Witness ==
    /\ AllPeriodsValid
    /\ Len(timer.stages) = 2
    /\ \A i \in Stages : timer.stages[i].elapsed_s = timer.stages[i].period_s
    /\ timer.current_timer = Len(timer.stages)
    /\ lastRet = "false"

\* C7 as stated: a stage of period 0 never gets an unpaused call of
\* update_state as the active stage (its Timer is rejected when it is built).
C7_NoCallOnZeroPeriod ==
    \A i \in Stages : timer.stages[i].period_s = 0 => applied[i] = 0

\* C8 as stated (for stages of periods >= 1): when the process has left the
\* loop and exited (the loop ended, Quit, a failed render, a failed poll or
\* read) and no call of the teardown itself failed, the terminal is out of raw
\* mode and off the alternate screen.
C8_TerminalRestoredOnExit ==
    (/\ AllPeriodsValid
     /\ pc = "exited"
     /\ exitPath \in {"loop_end", "quit", "render", "input"}
     /\ ~(exitPath \in {"loop_end", "quit"} /\ exitCode = "nonzero"))
    => (~rawMode /\ ~altScreen)

\* C9: while the loop runs no tick is lost: the ticks received (one call of
\* update_state each) and the ticks in the channel are the ticks sent, the
\* channel holds them in the order sent, and the ticker can send whatever the
\* channel holds.
C9_NoTickDropped ==
    pc \in {"tick", "input"} =>
       /\ advanced + Len(queue) = emitted
       /\ queue = [k \in 1..Len(queue) |-> advanced + k]
       /\ emitted < MaxTicks => ENABLED TickerEmit

\* C9 witness: ticks are waiting in the channel while others have been
\* received, some of them while paused.
C9_Witness ==
    /\ pc = "tick"
    /\ Len(queue) >= 2
    /\ advanced >= 2
    /\ pausedCalls >= 1

\* C10 as stated (for stages of periods >= 1): a process that had a render
\* fail exits with a non-zero code, and one that exits with code 0 was quit or
\* ran to completion.
C10_RenderFailureExitsNonZero ==
    (AllPeriodsValid /\ pc = "exited") =>
       /\ renderErr => exitCode # "zero"
       /\ exitCode = "zero" =>
             (exitPath = "quit" \/ (is_complete(timer) /\ lastRet = "false"))

\* The events the two bound arms of the match are written for: Esc with any
\* modifiers or 'c' with CONTROL alone, and the space bar with no modifier;
\* and the events of each kind among those of the model.
QuitEvent(e) ==
    /\ e.kind = "Key"
    /\ (e.code = "Esc" \/ (e.code = "c" /\ e.modifiers = "CONTROL"))
ToggleEvent(e) ==
    /\ e.kind = "Key"
    /\ e.code = " "
    /\ e.modifiers = "NONE"
QuitEvents == {e \in InputEvents : QuitEvent(e)}
ToggleEvents == {e \in InputEvents : ToggleEvent(e)}
OtherEvents == InputEvents \ (QuitEvents \cup ToggleEvents)

\* A step of the loop that flipped paused, and one whose draw returned Ok.
Flipped == timer'.paused # timer.paused
DrawnOk == pc' # "exited" /\ renderErr' = renderErr

\* C11 as stated (for stages of periods >= 1 and renders that succeed): from
\* the call of update_state that returned false to the end of the loop nothing
\* changes the timer and nothing is drawn over the frame of that call.
C11_NothingAfterFalseReturn ==
    [][(AllPeriodsValid /\ ~renderErr' /\ lastRet = "false" /\ pc = "input")
          => (timer' = timer /\ frame' = frame)]_vars

\* C12: reading a Quit event (Esc with any modifiers, or 'c' with CONTROL)
\* is possible in every state of the input phase, and it leaves the loop at
\* once for the teardown: the step and every later one leave the timer and
\* the frame as they are, make no call of update_state and attempt no draw,
\* and the process exits, with code 0 unless a call of the teardown fails.
C12_QuitLeavesAtOnce ==
    /\ [](pc = "input" => \A e \in QuitEvents : ENABLED OnEvent(e))
    /\ [][/\ pc = "input" =>
                \/ /\ pc' = "teardown"
                   /\ exitPath' = "quit"
                   /\ UNCHANGED <<timer, frame, advanced, renderErr>>
                \/ \A e \in QuitEvents : ~OnEvent(e)
          /\ exitPath = "quit" =>
                /\ UNCHANGED <<timer, frame, advanced, renderErr, exitPath>>
                /\ pc' = "exited"
                /\ exitCode' = IF teardownErr' THEN "nonzero" ELSE "zero"]_vars

\* C12 witness: the process has exited with code 0 after a Quit read while
\* the timer was complete and paused and a tick was waiting in the channel.
C12_Witness ==
    /\ pc = "exited"
    /\ exitPath = "quit"
    /\ exitCode = "zero"
    /\ is_complete(timer)
    /\ timer.paused
    /\ emitted > advanced

\* C13 as stated (for stages of periods >= 1 and renders that succeed): with
\* current_timer = len(stages), reading a TogglePause event is possible and
\* leaves the timer and the frame as they were, and no step leaves the
\* complete state.
C13_ToggleInCompleteNoEffect ==
    /\ []((pc = "input" /\ is_complete(timer)) =>
             \A e \in ToggleEvents : ENABLED OnEvent(e))
    /\ [][(AllPeriodsValid /\ ~renderErr' /\ is_complete(timer)) =>
             /\ is_complete(timer')
             /\ pc = "input" =>
                   \A e \in ToggleEvents :
                      OnEvent(e) => (timer' = timer /\ frame' = frame)]_vars

\* C13 amended: with current_timer = len(stages), reading a TogglePause event
\* is possible and flips paused, and the frame drawn for it differs from the
\* one before and shows the new value of paused in every title; no step
\* changes stages or current_timer, so the complete state is never left.
C13_ToggleInCompleteFlipsPaused ==
    /\ []((pc = "input" /\ is_complete(timer)) =>
             \A e \in ToggleEvents : ENABLED OnEvent(e))
    /\ [][is_complete(timer) =>
             /\ timer'.stages = timer.stages
             /\ timer'.current_timer = timer.current_timer
             /\ pc = "input" =>
                   \A e \in ToggleEvents :
                      OnEvent(e) =>
                         /\ timer'.paused = ~timer.paused
                         /\ DrawnOk =>
                               /\ frame' = draw(timer', warn)
                               /\ frame' # frame
                               /\ \A i \in Stages :
                                     frame'[i].title.paused = timer'.paused]_vars

\* C13 witness: the loop is running with a complete timer that was paused by
\* a toggle read after the call that completed it, and the frame shows it.
C13_Witness ==
    /\ pc = "tick"
    /\ is_complete(timer)
    /\ lastRet = "true"
    /\ ~pausedAtCall
    /\ timer.paused
    /\ frame = draw(timer, warn)
    /\ \A i \in Stages : frame[i].title.paused

\* C14: in an iteration the channel is looked at first and the input second.
\* A call of update_state is made in the tick phase only and is followed by
\* the input phase; what it applies is decided by paused as the iteration
\* found it, and the call leaves paused alone. A flip of paused is made in the
\* input phase only, ends the iteration, and changes neither stages nor
\* current_timer. The frame is drawn after each of them from the timer as the
\* step left it.
C14_TickThenInput ==
    [][/\ Called =>
             /\ pc = "tick" /\ pc' \in {"input", "exited"}
             /\ ~Flipped
             /\ timer.paused => timer' = timer
             /\ (~timer.paused /\ ~is_complete(timer) /\ pc' = "input") =>
                   SumElapsed(timer'.stages, Len(timer.stages)) = TotalElapsed + 1
             /\ DrawnOk => frame' = draw(timer', warn)
       /\ Flipped =>
             /\ pc = "input" /\ pc' \in {"tick", "teardown", "exited"}
             /\ ~Called
             /\ timer'.stages = timer.stages
             /\ timer'.current_timer = timer.current_timer
             /\ DrawnOk => frame' = draw(timer', warn)
       /\ (pc' = "input" /\ pc # "input") => pc = "tick"
       /\ (pc = "input" /\ pc' # "input") => pc' \in {"tick", "teardown", "exited"}]_vars

\* C14 witness: the last iteration of the loop received a tick while paused,
\* update_state returned false for it, and the pause was then lifted by the
\* input of the same iteration; the frame shows the timer running.
C14_Witness ==
    /\ pc = "teardown"
    /\ exitPath = "loop_end"
    /\ ~renderErr
    /\ lastRet = "false"
    /\ pausedCalls >= 1
    /\ pausedAtCall
    /\ ~timer.paused
    /\ frame = draw(timer, warn)

\* C15: an iteration receives one tick if the channel holds any and none
\* otherwise: the tick phase is left by one call of update_state exactly when
\* a tick is pending, the call takes the oldest tick and leaves the others in
\* the channel, and the tick phase is entered again only through the input
\* phase. While the loop runs, ticks leave the channel in no other way.
C15_OneTickPerIteration ==
    [][/\ Called =>
             /\ advanced' = advanced + 1
             /\ pc' = "input" => queue' = Tail(queue)
       /\ (pc = "tick" /\ pc' # "tick") => (Called <=> queue # <<>>)
       /\ (pc' = "tick" /\ pc # "tick") => pc \in {"setup", "input"}
       /\ (pc \in {"tick", "input"} /\ pc' \in {"tick", "input"}) =>
             /\ Len(queue') >= Len(queue) - 1
             /\ Len(queue') < Len(queue) => Called]_vars

\* C15 witness: two ticks of a backlog have been received in two iterations
\* and two more are still waiting in the channel.
C15_Witness ==
    /\ pc = "input"
    /\ advanced = 2
    /\ queue = <<3, 4>>
    /\ lastRet = "true"

\* C16: reading a TogglePause event (the space bar with no modifier) is
\* possible in every state of the input phase, after a tick was received in
\* the iteration or not. The step flips paused and changes nothing else of
\* the timer, makes no call of update_state, and draws: when the draw returns
\* Ok the frame is that of the timer as flipped and every title shows the new
\* value of paused; otherwise main is left. Nothing else flips paused.
C16_ToggleFlipsAndDraws ==
    /\ [](pc = "input" => \A e \in ToggleEvents : ENABLED OnEvent(e))
    /\ [][/\ pc = "input" =>
                \/ /\ timer' = [timer EXCEPT !.paused = ~timer.paused]
                   /\ ~Called
                   /\ IF DrawnOk
                      THEN /\ frame' = draw(timer', warn)
                           /\ \A i \in Stages :
                                 frame'[i].title.paused = timer'.paused
                      ELSE pc' = "exited"
                \/ \A e \in ToggleEvents : ~OnEvent(e)
          /\ Flipped => (pc = "input" /\ \E e \in ToggleEvents : OnEvent(e))]_vars

\* C16 witness: the last iteration of the loop received a tick with the timer
\* running, update_state returned false for it, and the input of the same
\* iteration paused the timer; every title of the frame reads Paused.
C16_Witness ==
    /\ pc = "teardown"
    /\ exitPath = "loop_end"
    /\ ~renderErr
    /\ lastRet = "false"
    /\ ~pausedAtCall
    /\ timer.paused
    /\ \A i \in Stages : frame[i].title.paused

\* C17: every event that is neither a Quit event nor a TogglePause event can
\* be read in every state of the input phase, and a step of the input phase
\* is the reading of no such event unless it is a step that reading no event
\* could have been: the timer, the frame and the exit code
\* stay as they are, no draw is attempted, no call of update_state is made,
\* and the loop goes on to its next iteration unless keep_running was already
\* false, in which case the loop ends as it would have without the event.
C17_OtherEventsIgnored ==
    /\ [](pc = "input" => \A e \in OtherEvents : ENABLED OnEvent(e))
    /\ [][pc = "input" =>
             \/ /\ UNCHANGED <<timer, frame, renderErr, advanced, exitCode>>
                /\ pc' = IF keep_running THEN "tick" ELSE "teardown"
                /\ exitPath' # "quit"
                /\ NoInput
             \/ \A e \in OtherEvents : ~OnEvent(e)]_vars

\* C17 witness: in the input phase of a running loop, with the timer paused
\* part-way and a tick waiting, the space bar with SHIFT is read and the step
\* leads to the next iteration with timer and frame as they are.
C17_Witness ==
    /\ pc = "input"
    /\ keep_running
    /\ timer.paused
    /\ TotalElapsed >= 1
    /\ Len(queue) >= 1
    /\ ENABLED (/\ OnEvent([kind |-> "Key", code |-> " ", modifiers |-> "SHIFT"])
                /\ pc' = "tick"
                /\ UNCHANGED <<timer, frame>>)

\* C18 as stated: in every reachable state the stages before current_timer
\* have elapsed_s = period_s, the stage at current_timer (if any) has
\* elapsed_s < period_s, and the stages after it have elapsed_s = 0.
C18_StagesInOrder ==
    \A i \in Stages :
       /\ i - 1 < timer.current_timer =>
             timer.stages[i].elapsed_s = timer.stages[i].period_s
       /\ i - 1 = timer.current_timer =>
             timer.stages[i].elapsed_s < timer.stages[i].period_s
       /\ i - 1 > timer.current_timer => timer.stages[i].elapsed_s = 0

\* C20: as long as no draw has failed or panicked, from the first draw on the
\* frame on the screen is the one of the timer as it is: each step that
\* changes the timer (a call of update_state or a flip of paused, never both)
\* draws the timer it leaves, so between steps, and at the end of every
\* iteration, the frame is never behind the timer.
C20_FrameShowsTimer ==
    (pc # "setup" /\ exitPath \notin {"setup", "panic"} /\ ~renderErr)
       => frame = draw(timer, warn)

\* C20 witness: at the end of an iteration the timer has been advanced by
\* ticks and then paused part-way by a toggle, and the frame is that of the
\* paused timer.
C20_Witness ==
    /\ pc = "tick"
    /\ ~renderErr
    /\ advanced >= 2
    /\ ~is_complete(timer)
    /\ ~pausedAtCall
    /\ timer.paused
    /\ frame = draw(timer, warn)
    /\ frame[1].title.paused

\* A run of the kind C19 is about: stages of periods >= 1, no Quit, no I/O
\* error and no panic, and a timer paused for so few of the ticker's ticks
\* that enough are left to run it to completion.
Undisturbed ==
    /\ AllPeriodsValid
    /\ exitPath \notin {"setup", "input", "render", "quit", "panic"}
    /\ ~renderErr
    /\ pausedCalls + TotalPeriod < MaxTicks

\* The loop has ended by completion with every second applied.
Completed ==
    /\ pc = "exited"
    /\ exitPath = "loop_end"
    /\ lastRet = "false"
    /\ TotalElapsed = TotalPeriod
    /\ \A i \in Stages : applied[i] = timer.stages[i].period_s

\* C19 as stated, second half (for stages of periods >= 1 and renders that
\* succeed): the loop never ends by completion on a call of update_state
\* made while the timer is paused.
C19_NoCompletionWhilePaused ==
    (AllPeriodsValid /\ ~renderErr /\ exitPath = "loop_end") => ~pausedAtCall

\* C19 amended: with both threads running, a run that stays undisturbed ends
\* by completion with exactly the sum of the periods applied; and a call of
\* update_state made while the timer is paused and not yet complete changes
\* nothing and keeps the loop running.
C19_CompletesUnlessPaused ==
    /\ []Undisturbed => <>Completed
    /\ [][(Called /\ timer.paused /\ ~is_complete(timer) /\ DrawnOk)
             => (timer' = timer /\ keep_running' /\ pc' = "input")]_vars

\* C19 witness: the loop has ended by completion and the process has exited
\* with code 0 after a run in which ticks were received while paused.
C19_Witness ==
    /\ Completed
    /\ Undisturbed
    /\ exitCode = "zero"
    /\ pausedCalls >= 1
    /\ Len(timer.stages) = 2

====
